------------------------------ MODULE Spec2Model ------------------------------
(***************************************************************************)
(* Model of the AmazonCloudWatchAgent operator core:                       *)
(*   - controllers/amazoncloudwatchagent_controller.go: NewReconciler,     *)
(*     Reconcile and RunTasks (the task pipeline, run by several worker    *)
(*     goroutines that share the task list behind muTasks);                *)
(*   - the collector package's Container, getConfigContainerPorts and      *)
(*     portMapToList (the container manifest synthesis).                   *)
(* Go strings whose bytes matter (flag keys and values, port names) are    *)
(* sequences of byte codes, compared as Go compares strings.               *)
(***************************************************************************)
EXTENDS Integers, Sequences, FiniteSets, TLC

(***************************************************************************)
(* Bounds of the model.                                                    *)
(***************************************************************************)
\* longest task list handed to NewReconciler in Params.Tasks
MaxTasks == 2
\* number of worker goroutines calling Reconcile concurrently
NumProcs == 2

\* most flags in the spec's Args map
MaxArgs == 2
\* most ports declared in the spec's Ports list
MaxUserPorts == 2
\* most calls of Container in one behaviour
MaxCalls == 2

Procs == 1..NumProcs

(***************************************************************************)
(* Errors.  An error is a record of the API status reason and the set of   *)
(* status causes it carries; Nil is Go's nil error.                        *)
(***************************************************************************)
Nil == [reason |-> "nil", causes |-> {}]
ErrInternal == [reason |-> "InternalError", causes |-> {}]
ErrNotFound == [reason |-> "NotFound", causes |-> {}]
ErrForbidden == [reason |-> "Forbidden", causes |-> {}]
ErrNamespaceTerminating == [reason |-> "Forbidden", causes |-> {"NamespaceTerminating"}]
ErrCauseOnly == [reason |-> "Conflict", causes |-> {"NamespaceTerminating"}]
ErrCanceled == [reason |-> "context canceled", causes |-> {}]

\* what a task's Do may return
TaskOutcomes ==
  {Nil, ErrInternal, ErrForbidden, ErrNamespaceTerminating, ErrCauseOnly, ErrCanceled}
\* what r.Get may return
FetchOutcomes == {Nil, ErrNotFound, ErrInternal, ErrNamespaceTerminating}

IsNotFound(err) == err.reason = "NotFound"
IsForbidden(err) == err.reason = "Forbidden"
HasStatusCause(err, cause) == cause \in err.causes

\* IgnoreNotFound, were it to pass NotFound on to the caller
IgnoreNotFoundKeeps(err) == err

\* client.IgnoreNotFound
IgnoreNotFound(err) == IF IsNotFound(err) THEN Nil ELSE err

\* the test of RunTasks, were it to look for a NotFound error with the cause
IsNamespaceTerminatingNotFound(err) ==
  IsNotFound(err) /\ HasStatusCause(err, "NamespaceTerminating")

\* the test of RunTasks for "the namespace is being terminated"
IsNamespaceTerminating(err) ==
  IsForbidden(err) /\ HasStatusCause(err, "NamespaceTerminating")

(***************************************************************************)
(* Tasks and NewReconciler.                                                *)
(***************************************************************************)
Task(name, bail) == [Name |-> name, BailOnError |-> bail]

\* the default list, were deployments and daemon sets listed the other way
\* round and the daemon sets task not marked bail-on-error
DefaultTasksSwapped ==
  << Task("config maps", TRUE),
     Task("service accounts", TRUE),
     Task("services", TRUE),
     Task("daemon sets", FALSE),
     Task("deployments", TRUE),
     Task("amazon-cloudwatch-agent", TRUE) >>

DefaultTasks ==
  << Task("config maps", TRUE),
     Task("service accounts", TRUE),
     Task("services", TRUE),
     Task("deployments", TRUE),
     Task("daemon sets", TRUE),
     Task("amazon-cloudwatch-agent", TRUE) >>

CustomNames == <<"t1", "t2", "t3", "t4">>

\* the task lists a caller may pass in Params.Tasks (the empty one included)
ParamsTasks ==
  UNION { { [i \in 1..n |-> Task(CustomNames[i], b[i])] : b \in [1..n -> BOOLEAN] }
          : n \in 0..MaxTasks }

NewReconcilerTasks(pTasks) == IF Len(pTasks) = 0 THEN DefaultTasks ELSE pTasks

\* ctrl.Result{}
EmptyResult == [Requeue |-> FALSE, RequeueAfter |-> 0]

VARIABLES
  paramsTasks, \* the Params.Tasks NewReconciler was called with
  tasks,      \* r.tasks
  muTasks,    \* r.muTasks: [readers |-> number of RLock holders, writer |-> Lock held,
              \*             pending |-> a Lock call waits for the readers to leave]
  pc,         \* per goroutine: "idle", "fetched", "loop", "inflight", "returned"
  idx,        \* per goroutine: position of the range loop of RunTasks (1-based)
  started,    \* per goroutine: indices of the tasks whose Do was called, in call order
  outcome,    \* per goroutine: what those calls returned, in return order
  fetchErr,   \* per goroutine: what r.Get returned in this Reconcile
  ret,        \* per goroutine: the error Reconcile returned
  result      \* per goroutine: the ctrl.Result Reconcile returned

rvars == <<paramsTasks, tasks, muTasks, pc, idx, started, outcome, fetchErr, ret, result>>

VARIABLES
  config,     \* cfg: [CollectorImage, CollectorConfigMapEntry]
  cloudwatchAgentPorts, \* constants.CloudwatchAgentPorts, the default port table
  osEnv,      \* the proxy variables of the operator's process environment
  otelcol,    \* the Spec of the caller's AmazonCloudWatchAgent instance
  calls       \* the calls of Container made so far: inputs and container returned

cvars == <<config, cloudwatchAgentPorts, osEnv, otelcol, calls>>
vars == <<rvars, cvars>>

NoResult == [Requeue |-> FALSE, RequeueAfter |-> -1]

InitReconciler ==
  /\ paramsTasks \in ParamsTasks
  /\ tasks = NewReconcilerTasks(paramsTasks)
  /\ muTasks = [readers |-> 0, writer |-> FALSE, pending |-> FALSE]
  /\ pc = [p \in Procs |-> "idle"]
  /\ idx = [p \in Procs |-> 0]
  /\ started = [p \in Procs |-> <<>>]
  /\ outcome = [p \in Procs |-> <<>>]
  /\ fetchErr = [p \in Procs |-> Nil]
  /\ ret = [p \in Procs |-> Nil]
  /\ result = [p \in Procs |-> NoResult]

\* Reconcile, lines 108-130: fetch the instance; on a fetch error return at once
ReconcileGet(p) ==
  /\ pc[p] = "idle"
  /\ \E err \in FetchOutcomes :
       /\ fetchErr' = [fetchErr EXCEPT ![p] = err]
       /\ IF err # Nil
            THEN /\ pc' = [pc EXCEPT ![p] = "returned"]
                 /\ ret' = [ret EXCEPT ![p] = IgnoreNotFound(err)]
                 /\ result' = [result EXCEPT ![p] = EmptyResult]
            ELSE /\ pc' = [pc EXCEPT ![p] = "fetched"]
                 /\ UNCHANGED <<ret, result>>
  /\ UNCHANGED <<tasks, paramsTasks, muTasks, idx, started, outcome>>

\* the start of RunTasks, were the list read without regard to a writer
RunTasksRLockUnguarded(p) ==
  /\ pc[p] = "fetched"
  /\ muTasks' = [muTasks EXCEPT !.readers = @ + 1]
  /\ pc' = [pc EXCEPT ![p] = "loop"]
  /\ idx' = [idx EXCEPT ![p] = 1]
  /\ UNCHANGED <<tasks, paramsTasks, started, outcome, fetchErr, ret, result>>

\* RunTasks, lines 141-143: r.muTasks.RLock() and the start of the range loop
RunTasksRLock(p) ==
  /\ pc[p] = "fetched"
  /\ ~muTasks.writer /\ ~muTasks.pending
  /\ muTasks' = [muTasks EXCEPT !.readers = @ + 1]
  /\ pc' = [pc EXCEPT ![p] = "loop"]
  /\ idx' = [idx EXCEPT ![p] = 1]
  /\ UNCHANGED <<tasks, paramsTasks, started, outcome, fetchErr, ret, result>>

\* the call of task.Do, were a task that failed to be called once more
TaskDoRetries(p) ==
  /\ pc[p] = "loop"
  /\ idx[p] <= Len(tasks) \/ (outcome[p] # <<>> /\ outcome[p][Len(outcome[p])] # Nil)
  /\ started' = [started EXCEPT ![p] =
       Append(@, IF outcome[p] # <<>> /\ outcome[p][Len(outcome[p])] # Nil
                   THEN idx[p] - 1 ELSE idx[p])]
  /\ pc' = [pc EXCEPT ![p] = "inflight"]
  /\ UNCHANGED <<tasks, paramsTasks, muTasks, idx, outcome, fetchErr, ret, result>>

\* RunTasks, line 144: call task.Do for the task at the loop position
TaskDo(p) ==
  /\ pc[p] = "loop"
  /\ idx[p] <= Len(tasks)
  /\ started' = [started EXCEPT ![p] = Append(@, idx[p])]
  /\ pc' = [pc EXCEPT ![p] = "inflight"]
  /\ UNCHANGED <<tasks, paramsTasks, muTasks, idx, outcome, fetchErr, ret, result>>

\* the return of RunTasks, were RUnlock not deferred and left out where an
\* error is returned
ReturnFromRunTasksLeaks(p, err) ==
  /\ muTasks' = [muTasks EXCEPT !.readers = IF err = Nil THEN @ - 1 ELSE @]
  /\ pc' = [pc EXCEPT ![p] = "returned"]
  /\ ret' = [ret EXCEPT ![p] = err]
  /\ result' = [result EXCEPT ![p] = EmptyResult]

\* the return of RunTasks (deferred RUnlock) and of Reconcile, lines 132-136
ReturnFromRunTasks(p, err) ==
  /\ muTasks' = [muTasks EXCEPT !.readers = @ - 1]
  /\ pc' = [pc EXCEPT ![p] = "returned"]
  /\ ret' = [ret EXCEPT ![p] = err]
  /\ result' = [result EXCEPT ![p] = EmptyResult]

\* the loop body, were it to ignore BailOnError
HandleTaskErrorNeverBails(err, task) ==
  IF err = Nil THEN "continue"
  ELSE IF IsNamespaceTerminating(err) THEN "absorb"
  ELSE "continue"

\* the loop body, were it to return on every failure
HandleTaskErrorAlwaysBails(err, task) ==
  IF err = Nil THEN "continue"
  ELSE IF IsNamespaceTerminating(err) THEN "absorb"
  ELSE "bail"

\* the loop body, were it to test BailOnError before the namespace check
HandleTaskErrorBailFirst(err, task) ==
  IF err = Nil THEN "continue"
  ELSE IF task.BailOnError THEN "bail"
  ELSE IF IsNamespaceTerminating(err) THEN "absorb"
  ELSE "continue"

\* the loop body, were it to take a cancelled context for a reason to stop
\* without an error
HandleTaskErrorAbsorbsCanceled(err, task) ==
  IF err = Nil THEN "continue"
  ELSE IF IsNamespaceTerminating(err) \/ err = ErrCanceled THEN "absorb"
  ELSE IF task.BailOnError THEN "bail"
  ELSE "continue"

\* RunTasks, lines 145-153: what the loop body does with the value task.Do
\* returned: "continue" with the next task, "absorb" (return nil) or "bail"
\* (return the error)
HandleTaskError(err, task) ==
  IF err = Nil THEN "continue"
  ELSE IF IsNamespaceTerminating(err) THEN "absorb"
  ELSE IF task.BailOnError THEN "bail"
  ELSE "continue"

\* RunTasks, lines 144-155: task.Do returns and the loop body handles the error
TaskReturn(p) ==
  /\ pc[p] = "inflight"
  /\ \E err \in TaskOutcomes :
       LET verdict == HandleTaskError(err, tasks[idx[p]]) IN
       /\ outcome' = [outcome EXCEPT ![p] = Append(@, err)]
       /\ \/ /\ verdict = "absorb"
             /\ ReturnFromRunTasks(p, Nil)
             /\ UNCHANGED idx
          \/ /\ verdict = "bail"
             /\ ReturnFromRunTasks(p, err)
             /\ UNCHANGED idx
          \/ /\ verdict = "continue"
             /\ idx' = [idx EXCEPT ![p] = @ + 1]
             /\ pc' = [pc EXCEPT ![p] = "loop"]
             /\ UNCHANGED <<muTasks, ret, result>>
  /\ UNCHANGED <<tasks, paramsTasks, started, fetchErr>>

\* RunTasks, line 157: the loop is exhausted, return nil
RunTasksExit(p) ==
  /\ pc[p] = "loop"
  /\ idx[p] > Len(tasks)
  /\ ReturnFromRunTasks(p, Nil)
  /\ UNCHANGED <<tasks, paramsTasks, idx, started, outcome, fetchErr>>

\* the worker takes the next request from the queue: a fresh Reconcile
NextRequest(p) ==
  /\ pc[p] = "returned"
  /\ pc' = [pc EXCEPT ![p] = "idle"]
  /\ idx' = [idx EXCEPT ![p] = 0]
  /\ started' = [started EXCEPT ![p] = <<>>]
  /\ outcome' = [outcome EXCEPT ![p] = <<>>]
  /\ fetchErr' = [fetchErr EXCEPT ![p] = Nil]
  /\ ret' = [ret EXCEPT ![p] = Nil]
  /\ result' = [result EXCEPT ![p] = NoResult]
  /\ UNCHANGED <<tasks, paramsTasks, muTasks>>

NextReconciler ==
  \E p \in Procs :
    \/ ReconcileGet(p)
    \/ RunTasksRLock(p)
    \/ TaskDo(p)
    \/ TaskReturn(p)
    \/ RunTasksExit(p)
    \/ NextRequest(p)

(***************************************************************************)
(* Go strings as sequences of bytes.                                       *)
(***************************************************************************)
Min(a, b) == IF a < b THEN a ELSE b
Range(f) == { f[x] : x \in DOMAIN f }

\* s < t for Go strings: bytewise lexicographic order
StrLess(s, t) ==
  \E i \in 1..(Min(Len(s), Len(t)) + 1) :
    /\ \A j \in 1..(i - 1) : s[j] = t[j]
    /\ \/ i > Len(s) /\ i <= Len(t)
       \/ i <= Len(s) /\ i <= Len(t) /\ s[i] < t[i]

\* the orders in which a range loop may visit the keys of a Go map
Perms(S) == { f \in [1..Cardinality(S) -> S] : Range(f) = S }

\* a Go map with key k set to v
MapPut(m, k, v) == [x \in DOMAIN m \cup {k} |-> IF x = k THEN v ELSE m[x]]
\* a Go map after delete(m, k)
MapDelete(m, k) == [x \in DOMAIN m \ {k} |-> m[x]]
EmptyMap == [x \in {} |-> 0]

\* the strings of the model: "--", "=", "config", "--config=/conf/"
StrDashDash == <<45, 45>>
StrEq == <<61>>
StrConfig == <<99, 111, 110, 102, 105, 103>>
StrConfigFlagPrefix == <<45, 45, 99, 111, 110, 102, 105, 103, 61, 47, 99, 111, 110, 102, 47>>

(***************************************************************************)
(* getConfigContainerPorts and portMapToList.                              *)
(***************************************************************************)
\* maxPortLen
maxPortLen == 15

\* naming.Truncate(name, max): the name cut to at most max bytes
Truncate(name, max) == SubSeq(name, 1, Min(Len(name), max))

IsLowerAlpha(c) == c \in 97..122
IsDigit(c) == c \in 48..57
\* validation.IsValidPortName: the set of rules the name breaks
IsValidPortName(name) ==
  (IF Len(name) > 15 THEN {"must be no more than 15 characters"} ELSE {})
  \cup (IF Len(name) = 0 \/ \E i \in 1..Len(name) :
             ~(IsLowerAlpha(name[i]) \/ IsDigit(name[i]) \/ name[i] = 45)
          THEN {"must contain only alpha-numeric characters (a-z, 0-9), and hyphens (-)"}
          ELSE {})
  \cup (IF \A i \in 1..Len(name) : ~IsLowerAlpha(name[i])
          THEN {"must contain at least one letter (a-z)"} ELSE {})
  \cup (IF \E i \in 1..(Len(name) - 1) : name[i] = 45 /\ name[i + 1] = 45
          THEN {"must not contain consecutive hyphens"} ELSE {})
  \cup (IF Len(name) > 0 /\ (name[1] = 45 \/ name[Len(name)] = 45)
          THEN {"must not begin or end with a hyphen"} ELSE {})
\* validation.IsValidPortNum: the set of rules the number breaks
IsValidPortNum(num) ==
  IF 1 <= num /\ num <= 65535 THEN {} ELSE {"must be between 1 and 65535, inclusive"}

ContainerPort(name, port, protocol) ==
  [Name |-> name, ContainerPort |-> port, Protocol |-> protocol]

\* the loop of getConfigContainerPorts, were it to validate the name only
RECURSIVE ConfigPortsLoopNameOnly(_, _)
ConfigPortsLoopNameOnly(defaults, n) ==
  IF n = 0 THEN EmptyMap
  ELSE LET ports == ConfigPortsLoopNameOnly(defaults, n - 1)
           p == defaults[n]
           truncName == Truncate(p.Name, maxPortLen)
           nameErrs == IsValidPortName(truncName)
       IN IF Cardinality(nameErrs) > 0
            THEN ports
            ELSE MapPut(ports, truncName, ContainerPort(truncName, p.Port, p.Protocol))

\* the loop of getConfigContainerPorts, were it to stop at the first port
\* that fails validation instead of going on to the next
RECURSIVE ConfigPortsLoopStops(_, _)
ConfigPortsLoopStops(defaults, n) ==
  IF n = 0 THEN EmptyMap
  ELSE LET ports == ConfigPortsLoopStops(defaults, n - 1)
           p == defaults[n]
           truncName == Truncate(p.Name, maxPortLen)
           Bad(q) == \/ Cardinality(IsValidPortName(Truncate(q.Name, maxPortLen))) > 0
                     \/ Cardinality(IsValidPortNum(q.Port)) > 0
       IN IF \E j \in 1..n : Bad(defaults[j])
            THEN ports
            ELSE MapPut(ports, truncName, ContainerPort(truncName, p.Port, p.Protocol))

\* the loop of getConfigContainerPorts over the first n default ports
RECURSIVE ConfigPortsLoop(_, _)
ConfigPortsLoop(defaults, n) ==
  IF n = 0 THEN EmptyMap
  ELSE LET ports == ConfigPortsLoop(defaults, n - 1)
           p == defaults[n]
           truncName == Truncate(p.Name, maxPortLen)
           nameErrs == IsValidPortName(truncName)
           numErrs == IsValidPortNum(p.Port)
       IN IF Cardinality(nameErrs) > 0 \/ Cardinality(numErrs) > 0
            THEN ports
            ELSE MapPut(ports, truncName, ContainerPort(truncName, p.Port, p.Protocol))

\* getConfigContainerPorts: the map it returns and its error
getConfigContainerPorts(defaults) ==
  [ports |-> ConfigPortsLoop(defaults, Len(defaults)), err |-> Nil]

\* the overlay, were a declared port not to replace a default of its name
RECURSIVE OverlayPortsKeepsDefault(_, _, _)
OverlayPortsKeepsDefault(ports, userPorts, n) ==
  IF n = 0 THEN ports
  ELSE LET p == userPorts[n]
           below == OverlayPortsKeepsDefault(ports, userPorts, n - 1)
       IN IF p.Name \in DOMAIN ports THEN below
          ELSE MapPut(below, p.Name, ContainerPort(p.Name, p.Port, p.Protocol))

\* Container, lines 212-218: the first n user ports laid over the map
RECURSIVE OverlayPorts(_, _, _)
OverlayPorts(ports, userPorts, n) ==
  IF n = 0 THEN ports
  ELSE LET p == userPorts[n] IN
       MapPut(OverlayPorts(ports, userPorts, n - 1), p.Name,
              ContainerPort(p.Name, p.Port, p.Protocol))

\* the insertion, were the less function of sort.Slice to compare the wrong way
InsertPortDescending(sorted, p) ==
  LET k == Cardinality({i \in 1..Len(sorted) : ~StrLess(sorted[i].Name, p.Name)})
  IN SubSeq(sorted, 1, k) \o <<p>> \o SubSeq(sorted, k + 1, Len(sorted))

\* sort.Slice(ports, by Name) as an insertion sort
InsertPort(sorted, p) ==
  LET k == Cardinality({i \in 1..Len(sorted) : ~StrLess(p.Name, sorted[i].Name)})
  IN SubSeq(sorted, 1, k) \o <<p>> \o SubSeq(sorted, k + 1, Len(sorted))
RECURSIVE SortPorts(_, _)
SortPorts(ports, n) ==
  IF n = 0 THEN <<>> ELSE InsertPort(SortPorts(ports, n - 1), ports[n])

\* portMapToList, were it to return the ports in the order of the range loop
portMapToListUnsorted(portMap, order) ==
  [i \in 1..Len(order) |-> portMap[order[i]]]

\* portMapToList, the range loop visiting the map in the order given
portMapToList(portMap, order) ==
  LET ports == [i \in 1..Len(order) |-> portMap[order[i]]]
  IN SortPorts(ports, Len(ports))

(***************************************************************************)
(* Container.                                                              *)
(***************************************************************************)
\* fmt.Sprintf("--%s=%s", k, v)
RenderArg(k, v) == StrDashDash \o k \o StrEq \o v

\* sort.Strings as an insertion sort
InsertString(sorted, x) ==
  LET k == Cardinality({i \in 1..Len(sorted) : ~StrLess(x, sorted[i])})
  IN SubSeq(sorted, 1, k) \o <<x>> \o SubSeq(sorted, k + 1, Len(sorted))
RECURSIVE SortStrings(_, _)
SortStrings(strs, n) ==
  IF n = 0 THEN <<>> ELSE InsertString(SortStrings(strs, n - 1), strs[n])

\* the map Container iterates, were "config" never deleted from it
ArgsMapOfKeepsConfig(otelcolSpec, addConfig) ==
  IF otelcolSpec.Args.isNil THEN EmptyMap ELSE otelcolSpec.Args.kv

\* the map Container iterates, were "config" deleted whether or not a config
\* is added
ArgsMapOfAlwaysDeletes(otelcolSpec, addConfig) ==
  IF otelcolSpec.Args.isNil THEN EmptyMap
  ELSE IF StrConfig \in DOMAIN otelcolSpec.Args.kv
    THEN MapDelete(otelcolSpec.Args.kv, StrConfig)
    ELSE otelcolSpec.Args.kv

\* Container, lines 221-238: the map Container iterates: a fresh one when the
\* spec has none, else the spec's own map, from which "config" is deleted
\* when a config is added
ArgsMapOf(otelcolSpec, addConfig) ==
  IF otelcolSpec.Args.isNil THEN EmptyMap
  ELSE IF addConfig /\ StrConfig \in DOMAIN otelcolSpec.Args.kv
    THEN MapDelete(otelcolSpec.Args.kv, StrConfig)
    ELSE otelcolSpec.Args.kv

\* the argument list, were the rendered flags not sorted
ContainerArgsUnsorted(cfg, otelcolSpec, addConfig, argOrder) ==
  LET argsMap == ArgsMapOf(otelcolSpec, addConfig)
      configArg == IF addConfig
                     THEN <<StrConfigFlagPrefix \o cfg.CollectorConfigMapEntry>>
                     ELSE <<>>
      unsorted == [i \in 1..Len(argOrder) |-> RenderArg(argOrder[i], argsMap[argOrder[i]])]
  IN configArg \o unsorted

\* Container, lines 226-255: the argument list, the map visited in argOrder
ContainerArgs(cfg, otelcolSpec, addConfig, argOrder) ==
  LET argsMap == ArgsMapOf(otelcolSpec, addConfig)
      configArg == IF addConfig
                     THEN <<StrConfigFlagPrefix \o cfg.CollectorConfigMapEntry>>
                     ELSE <<>>
      unsorted == [i \in 1..Len(argOrder) |-> RenderArg(argOrder[i], argsMap[argOrder[i]])]
  IN configArg \o SortStrings(unsorted, Len(unsorted))

\* proxy.ReadProxyVarsFromEnv: for each proxy variable that is set, the
\* variable under its upper-case and its lower-case name
ProxyEnvNames == <<"HTTP_PROXY", "HTTPS_PROXY", "NO_PROXY">>
ToLower(name) ==
  CASE name = "HTTP_PROXY" -> "http_proxy"
    [] name = "HTTPS_PROXY" -> "https_proxy"
    [] name = "NO_PROXY" -> "no_proxy"
Unset == "<unset>"
EnvVar(name, value) == [Name |-> name, Value |-> value, FieldPath |-> ""]
RECURSIVE ReadProxyVarsLoop(_, _)
ReadProxyVarsLoop(env, n) ==
  IF n = 0 THEN <<>>
  ELSE LET name == ProxyEnvNames[n] IN
       ReadProxyVarsLoop(env, n - 1) \o
         (IF env[name] # Unset
            THEN <<EnvVar(name, env[name]), EnvVar(ToLower(name), env[name])>>
            ELSE <<>>)
ReadProxyVarsFromEnv(env) == ReadProxyVarsLoop(env, Len(ProxyEnvNames))

\* the POD_NAME variable of lines 266-273
PodNameVar == [Name |-> "POD_NAME", Value |-> "", FieldPath |-> "metadata.name"]

\* the environment list, were the system variables put before the user's
ContainerEnvSystemFirst(otelcolSpec, env) ==
  LET envVars == IF otelcolSpec.Env.isNil THEN <<>> ELSE otelcolSpec.Env.list
  IN <<PodNameVar>> \o envVars \o ReadProxyVarsFromEnv(env)

\* Container, lines 261-284: the environment list
ContainerEnv(otelcolSpec, env) ==
  LET envVars == IF otelcolSpec.Env.isNil THEN <<>> ELSE otelcolSpec.Env.list
  IN Append(envVars, PodNameVar) \o ReadProxyVarsFromEnv(env)

\* naming.ConfigMapExtra(name)
ConfigMapExtra(name) == <<"configmap-", name>>
VolumeMount(name, mountPath) == [Name |-> name, MountPath |-> mountPath]

\* Container, lines 220, 240-244, 257-259, 275-282: the volume mounts
ContainerVolumeMounts(otelcolSpec, addConfig) ==
  (IF addConfig
     THEN <<VolumeMount("naming.ConfigMapVolume()", <<"/etc/cwagentconfig">>)>>
     ELSE <<>>)
  \o otelcolSpec.VolumeMounts
  \o [i \in 1..Len(otelcolSpec.ConfigMaps) |->
        VolumeMount(ConfigMapExtra(otelcolSpec.ConfigMaps[i].Name),
                    <<"/var/conf", otelcolSpec.ConfigMaps[i].MountPath,
                      ConfigMapExtra(otelcolSpec.ConfigMaps[i].Name)>>)]

\* Container, lines 206-218: the port map before it is turned into a list
ContainerPortMap(defaults, otelcolSpec) ==
  OverlayPorts(getConfigContainerPorts(defaults).ports,
               otelcolSpec.Ports, Len(otelcolSpec.Ports))

\* Container: the container built when the argument map is visited in
\* argOrder and the port map in portOrder
Container(cfg, defaults, env, otelcolSpec, addConfig, argOrder, portOrder) ==
  [ Name |-> "naming.Container()",
    Image |-> IF otelcolSpec.Image = "" THEN cfg.CollectorImage ELSE otelcolSpec.Image,
    ImagePullPolicy |-> otelcolSpec.ImagePullPolicy,
    Ports |-> portMapToList(ContainerPortMap(defaults, otelcolSpec), portOrder),
    VolumeMounts |-> ContainerVolumeMounts(otelcolSpec, addConfig),
    Args |-> ContainerArgs(cfg, otelcolSpec, addConfig, argOrder),
    Env |-> ContainerEnv(otelcolSpec, env),
    EnvFrom |-> otelcolSpec.EnvFrom,
    Resources |-> otelcolSpec.Resources,
    SecurityContext |-> otelcolSpec.SecurityContext,
    Lifecycle |-> otelcolSpec.Lifecycle ]

\* the caller's spec after the call: its Args map is the one Container
\* deleted "config" from
SpecAfterContainer(otelcolSpec, addConfig) ==
  IF otelcolSpec.Args.isNil THEN otelcolSpec
  ELSE [otelcolSpec EXCEPT !.Args.kv = ArgsMapOf(otelcolSpec, addConfig)]

(***************************************************************************)
(* Inputs of Container.                                                    *)
(***************************************************************************)
\* flag keys "a", "a-b", "a.b", "a1", "ab", "b" (and "config", StrConfig)
KeyA == <<97>>
KeyADashB == <<97, 45, 98>>
KeyADotB == <<97, 46, 98>>
KeyA1 == <<97, 49>>
KeyAB == <<97, 98>>
KeyB == <<98>>
\* flag values "1" and "/conf/c"
Val1 == <<49>>
ValConfC == <<47, 99, 111, 110, 102, 47, 99>>
\* config map entries "c" and "x"
EntryC == <<99>>
EntryX == <<120>>

\* port names "a", "b", "c", "A", "abcdefghijklmnop" (16 bytes) and
\* "abcdefghijklmn-p" (16 bytes, a hyphen at byte 15)
PortA == <<97>>
PortB == <<98>>
PortC == <<99>>
PortUpperA == <<65>>
PortLong == [i \in 1..16 |-> 96 + i]
PortLongDash == [i \in 1..16 |-> IF i = 15 THEN 45 ELSE 96 + i]

ServicePort(name, port, protocol) == [Name |-> name, Port |-> port, Protocol |-> protocol]

\* default port tables; the names of a table stay distinct after truncation
DefaultPortTables ==
  { << ServicePort(PortA, 1, "TCP"), ServicePort(PortB, 2, "UDP") >>,
    << ServicePort(PortLong, 3, "TCP"), ServicePort(PortA, 0, "TCP"),
       ServicePort(PortB, 2, "UDP") >>,
    << ServicePort(PortLongDash, 4, "TCP"), ServicePort(PortUpperA, 5, "TCP"),
       ServicePort(PortA, 65535, "TCP"), ServicePort(PortB, 65536, "UDP") >> }

SeqsUpTo(S, n) == UNION { [1..k -> S] : k \in 0..n }

\* the Args maps over the keys and values given, nil included
ArgsInputs(keys, values) ==
  {[isNil |-> TRUE, kv |-> EmptyMap]} \cup
  { [isNil |-> FALSE, kv |-> m] :
      m \in UNION { [D -> values] : D \in {K \in SUBSET keys : Cardinality(K) <= MaxArgs} } }

UserEnvA == [Name |-> "A", Value |-> "1", FieldPath |-> ""]
UserEnvB == [Name |-> "B", Value |-> "2", FieldPath |-> ""]

\* a variable the user declares under the name the system injects
UserPodName == [Name |-> "POD_NAME", Value |-> "mine", FieldPath |-> ""]

AllUnset == [n \in Range(ProxyEnvNames) |-> Unset]
\* the proxy environments the operator may run in
ProxyEnvs ==
  { AllUnset,
    [AllUnset EXCEPT !["HTTP_PROXY"] = "http://proxy"],
    [AllUnset EXCEPT !["HTTPS_PROXY"] = "http://proxy", !["NO_PROXY"] = "localhost"] }

\* a spec with the Args, Ports and Env given
OtelcolSpec(image, args, ports, env) ==
  [ Image |-> image,
    ImagePullPolicy |-> "IfNotPresent",
    Args |-> args,
    Ports |-> ports,
    Env |-> env,
    VolumeMounts |-> <<VolumeMount("user-volume", <<"/data">>)>>,
    ConfigMaps |-> <<[Name |-> "extra", MountPath |-> "sub"]>>,
    EnvFrom |-> "spec.EnvFrom",
    Resources |-> "spec.Resources",
    SecurityContext |-> "spec.SecurityContext",
    Lifecycle |-> "spec.Lifecycle" ]

NilArgs == [isNil |-> TRUE, kv |-> EmptyMap]
NilEnv == [isNil |-> TRUE, list |-> <<>>]
Config(entry) == [CollectorImage |-> "default-image", CollectorConfigMapEntry |-> entry]

\* no Container call is under study: one fixed input
InitContainerIdle ==
  /\ config = Config(EntryC)
  /\ cloudwatchAgentPorts = <<>>
  /\ osEnv = AllUnset
  /\ otelcol = OtelcolSpec("", NilArgs, <<>>, NilEnv)
  /\ calls = <<>>

\* inputs that vary every part of the spec a little
InitContainer ==
  /\ config = Config(EntryC)
  /\ cloudwatchAgentPorts = << ServicePort(PortA, 1, "TCP"), ServicePort(PortB, 2, "UDP") >>
  /\ osEnv = AllUnset
  /\ \E image \in {"", "user-image"} :
     \E args \in ArgsInputs({KeyA, KeyADashB, StrConfig}, {Val1}) :
     \E ports \in SeqsUpTo({ServicePort(PortA, 7, "TCP"), ServicePort(PortC, 7, "TCP")},
                           MaxUserPorts) :
     \E env \in {NilEnv, [isNil |-> FALSE, list |-> <<UserEnvB, UserEnvA>>],
                 [isNil |-> FALSE, list |-> <<UserPodName>>]} :
       otelcol = OtelcolSpec(image, args, ports, env)
  /\ calls = <<>>

\* inputs that vary the flag map
InitArgs ==
  /\ config \in {Config(EntryC), Config(EntryX)}
  /\ cloudwatchAgentPorts = << ServicePort(PortA, 1, "TCP") >>
  /\ osEnv = AllUnset
  /\ \E args \in ArgsInputs({KeyA, KeyADashB, KeyADotB, KeyA1, KeyAB, KeyB, StrConfig},
                            {Val1, ValConfC}) :
       otelcol = OtelcolSpec("", args, <<>>, NilEnv)
  /\ calls = <<>>

\* inputs that vary the default port table and the declared ports
InitPorts ==
  /\ config = Config(EntryC)
  /\ cloudwatchAgentPorts \in DefaultPortTables
  /\ osEnv = AllUnset
  /\ \E ports \in SeqsUpTo({ ServicePort(n, num, proto) :
                               n \in {PortA, PortC, PortLong},
                               num \in {0, 7}, proto \in {"TCP", "UDP"} },
                           MaxUserPorts) :
       otelcol = OtelcolSpec("", NilArgs, ports, NilEnv)
  /\ calls = <<>>

\* a call of Container on the caller's instance; the two range loops over
\* maps visit their keys in an order of the runtime's choosing
CallContainer ==
  /\ Len(calls) < MaxCalls
  /\ \E addConfig \in BOOLEAN :
     \E argOrder \in Perms(DOMAIN ArgsMapOf(otelcol, addConfig)) :
     \E portOrder \in Perms(DOMAIN ContainerPortMap(cloudwatchAgentPorts, otelcol)) :
       /\ calls' = Append(calls,
            [ config |-> config, spec |-> otelcol, addConfig |-> addConfig, env |-> osEnv,
              configPorts |-> getConfigContainerPorts(cloudwatchAgentPorts),
              container |-> Container(config, cloudwatchAgentPorts, osEnv, otelcol,
                                      addConfig, argOrder, portOrder) ])
       /\ otelcol' = SpecAfterContainer(otelcol, addConfig)
  /\ UNCHANGED <<config, cloudwatchAgentPorts, osEnv, rvars>>

\* the operator's proxy environment differs from one call to the next
SetProxyEnv ==
  /\ Len(calls) < MaxCalls
  /\ \E env \in ProxyEnvs \ {osEnv} : osEnv' = env
  /\ UNCHANGED <<config, cloudwatchAgentPorts, otelcol, calls, rvars>>

\* no Reconcile is under study
InitReconcilerIdle ==
  /\ paramsTasks = <<>>
  /\ tasks = NewReconcilerTasks(paramsTasks)
  /\ muTasks = [readers |-> 0, writer |-> FALSE, pending |-> FALSE]
  /\ pc = [p \in Procs |-> "idle"]
  /\ idx = [p \in Procs |-> 0]
  /\ started = [p \in Procs |-> <<>>]
  /\ outcome = [p \in Procs |-> <<>>]
  /\ fetchErr = [p \in Procs |-> Nil]
  /\ ret = [p \in Procs |-> Nil]
  /\ result = [p \in Procs |-> NoResult]

\* the reconciler: Reconcile and RunTasks on NumProcs goroutines
Init == InitReconciler /\ InitContainerIdle
Next == NextReconciler /\ UNCHANGED cvars
Spec == Init /\ [][Next]_vars

\* Container called on varied specs, in a changing proxy environment
InitC == InitReconcilerIdle /\ InitContainer
NextC == CallContainer \/ SetProxyEnv
SpecContainer == InitC /\ [][NextC]_vars

\* Container called on varied flag maps
InitA == InitReconcilerIdle /\ InitArgs
SpecArgs == InitA /\ [][CallContainer]_vars

\* Container called on varied port tables and declarations
InitP == InitReconcilerIdle /\ InitPorts
SpecPorts == InitP /\ [][CallContainer]_vars

(***************************************************************************)
(* Replacing the task list.  A goroutine that replaces r.tasks takes       *)
(* r.muTasks.Lock(): the call waits until no reader holds the lock, and    *)
(* while it waits no new RLock is granted.                                 *)
(***************************************************************************)
\* the lists the task list is replaced by: those of one task
ReplacementTasks == { l \in ParamsTasks : Len(l) = 1 }

\* r.muTasks.Lock() is called
TasksLockBegin ==
  /\ ~muTasks.pending /\ ~muTasks.writer
  /\ muTasks' = [muTasks EXCEPT !.pending = TRUE]
  /\ UNCHANGED <<tasks, paramsTasks, pc, idx, started, outcome, fetchErr, ret, result>>

\* r.muTasks.Lock() returns: the readers have left
TasksLockAcquire ==
  /\ muTasks.pending
  /\ muTasks.readers = 0
  /\ muTasks' = [muTasks EXCEPT !.pending = FALSE, !.writer = TRUE]
  /\ UNCHANGED <<tasks, paramsTasks, pc, idx, started, outcome, fetchErr, ret, result>>

\* the list is replaced and r.muTasks.Unlock() called
TasksReplace ==
  /\ muTasks.writer
  /\ \E l \in ReplacementTasks : tasks' = l
  /\ muTasks' = [muTasks EXCEPT !.writer = FALSE]
  /\ UNCHANGED <<paramsTasks, pc, idx, started, outcome, fetchErr, ret, result>>

\* the steps of goroutine p while it holds the read lock
ReaderStep(p) == (TaskDo(p) \/ TaskReturn(p) \/ RunTasksExit(p)) /\ UNCHANGED cvars

\* reconciliations on a one-task list while the list is being replaced
InitL == InitReconciler /\ Len(paramsTasks) = 1 /\ InitContainerIdle
NextL ==
  (NextReconciler \/ TasksLockBegin \/ TasksLockAcquire \/ TasksReplace) /\ UNCHANGED cvars
SpecLock == InitL /\ [][NextL]_vars
\* a task's Do returns, a runnable goroutine runs
SpecLockFair ==
  /\ InitL /\ [][NextL]_vars
  /\ \A p \in Procs : WF_vars(ReaderStep(p))
  /\ WF_vars(TasksLockAcquire /\ UNCHANGED cvars)

TypeOK ==
  /\ muTasks.readers \in 0..NumProcs
  /\ \A p \in Procs : pc[p] \in {"idle", "fetched", "loop", "inflight", "returned"}

(***************************************************************************)
(* Properties of the task pipeline and of Reconcile.                       *)
(***************************************************************************)
\* the tasks of the list that goroutine p has invoked in its current run
Invoked(p) == { started[p][i] : i \in 1..Len(started[p]) }
\* the namespace-terminating condition: a Forbidden error that carries the
\* NamespaceTerminating cause
NamespaceTerminatingCondition(err) ==
  err.reason = "Forbidden" /\ "NamespaceTerminating" \in err.causes
\* a real failure: an error that is not the namespace-terminating condition
IsStepFailure(err) == err # Nil /\ ~NamespaceTerminatingCondition(err)
\* the k-th call of the run returned err from a task marked bail-on-error
BailFailureAt(p, k) ==
  /\ k \in 1..Len(outcome[p])
  /\ IsStepFailure(outcome[p][k])
  /\ tasks[started[p][k]].BailOnError

\* C1: when an invoked task marked BailOnError returns an error that is not
\* the namespace-terminating condition, no later task of the list is invoked
\* in that run and the run returns exactly that error.
C1_BailStopsPipeline ==
  \A p \in Procs : \A k \in 1..Len(outcome[p]) :
    BailFailureAt(p, k) =>
      /\ \A j \in (started[p][k] + 1)..Len(tasks) : j \notin Invoked(p)
      /\ pc[p] = "returned"
      /\ ret[p] = outcome[p][k]

\* C1 witness: a bail-on-error task that is not the last one has failed
C1_Witness ==
  \E p \in Procs : \E k \in 1..Len(outcome[p]) :
    /\ BailFailureAt(p, k)
    /\ started[p][k] < Len(tasks)
    /\ pc[p] = "returned"

\* the run of p went on after its k-th call: the next task of the list has
\* been invoked or the loop stands at it, about to invoke it
ProceedsAfter(p, k) ==
  LET t == started[p][k] IN
    \/ t + 1 \in Invoked(p)
    \/ pc[p] = "loop" /\ idx[p] = t + 1
\* no task marked bail-on-error has failed in the run of p
NoBailFailure(p) ==
  \A k \in 1..Len(outcome[p]) :
    ~(outcome[p][k] # Nil /\ tasks[started[p][k]].BailOnError)

\* C2 as stated: whenever a task that is not the last one and is not marked
\* BailOnError fails (with any error), the next task is still invoked; and a
\* run in which no bail-on-error task failed returns nil.
C2_Original ==
  \A p \in Procs :
    /\ \A k \in 1..Len(outcome[p]) :
         ( /\ outcome[p][k] # Nil
           /\ ~tasks[started[p][k]].BailOnError
           /\ started[p][k] < Len(tasks) ) => ProceedsAfter(p, k)
    /\ (pc[p] = "returned" /\ fetchErr[p] = Nil /\ NoBailFailure(p)) => ret[p] = Nil

\* C2 amended: whenever a task that is not the last one and is not marked
\* BailOnError fails with an error other than the namespace-terminating
\* condition, the next task is still invoked; and a run in which no
\* bail-on-error task failed returns nil.
C2_NonBailContinues ==
  \A p \in Procs :
    /\ \A k \in 1..Len(outcome[p]) :
         ( /\ IsStepFailure(outcome[p][k])
           /\ ~tasks[started[p][k]].BailOnError
           /\ started[p][k] < Len(tasks) ) => ProceedsAfter(p, k)
    /\ (pc[p] = "returned" /\ fetchErr[p] = Nil /\ NoBailFailure(p)) => ret[p] = Nil

\* C2 witness: a run that returned nil after a non-bail task failed and the
\* task after it was invoked
C2_Witness ==
  \E p \in Procs : \E k \in 1..Len(outcome[p]) :
    /\ IsStepFailure(outcome[p][k])
    /\ ~tasks[started[p][k]].BailOnError
    /\ started[p][k] + 1 \in Invoked(p)
    /\ pc[p] = "returned"
    /\ NoBailFailure(p)

\* C3: when an invoked task fails with the namespace-terminating condition,
\* no task after it is invoked and the run returns nil, whatever the task's
\* BailOnError flag.
C3_NamespaceTerminatingHalts ==
  \A p \in Procs : \A k \in 1..Len(outcome[p]) :
    NamespaceTerminatingCondition(outcome[p][k]) =>
      /\ \A j \in (started[p][k] + 1)..Len(tasks) : j \notin Invoked(p)
      /\ pc[p] = "returned"
      /\ ret[p] = Nil

\* C3 witness: the condition struck a task not marked bail-on-error that is
\* not the last of the list in one run, and a bail-on-error task in another
C3_Witness ==
  \E p, q \in Procs : \E k \in 1..Len(outcome[p]) : \E l \in 1..Len(outcome[q]) :
    /\ NamespaceTerminatingCondition(outcome[p][k])
    /\ NamespaceTerminatingCondition(outcome[q][l])
    /\ ~tasks[started[p][k]].BailOnError /\ started[p][k] < Len(tasks)
    /\ tasks[started[q][l]].BailOnError
    /\ pc[p] = "returned" /\ pc[q] = "returned"

\* C4: when the fetch in Reconcile fails, no task is invoked, Reconcile
\* returns nil for a NotFound error and the fetch error itself otherwise,
\* and the result returned requests no requeue.
C4_FetchFailure ==
  \A p \in Procs :
    fetchErr[p] # Nil =>
      /\ started[p] = <<>>
      /\ pc[p] = "returned"
      /\ ret[p] = (IF fetchErr[p].reason = "NotFound" THEN Nil ELSE fetchErr[p])
      /\ result[p].Requeue = FALSE
      /\ result[p].RequeueAfter = 0

\* C4 witness: one goroutine returned from a NotFound fetch and another from
\* a fetch error of another kind
C4_Witness ==
  \E p, q \in Procs :
    /\ fetchErr[p] = ErrNotFound /\ pc[p] = "returned"
    /\ fetchErr[q] = ErrInternal /\ pc[q] = "returned"

\* the order of the default task list
DefaultOrder ==
  <<"config maps", "service accounts", "services", "deployments",
    "daemon sets", "amazon-cloudwatch-agent">>
\* the names of the tasks goroutine p has invoked, in invocation order
InvokedNames(p) == [i \in 1..Len(started[p]) |-> tasks[started[p][i]].Name]
\* the deployments task has returned a failure in the run of p
DeploymentsFailedIn(p, anyError) ==
  \E k \in 1..Len(outcome[p]) :
    /\ tasks[started[p][k]].Name = "deployments"
    /\ IF anyError THEN outcome[p][k] # Nil ELSE IsStepFailure(outcome[p][k])
DeploymentsFailureReturned(p) ==
  /\ pc[p] = "returned"
  /\ \E k \in 1..Len(outcome[p]) :
       tasks[started[p][k]].Name = "deployments" /\ ret[p] = outcome[p][k]
  /\ \A i \in 1..Len(started[p]) :
       tasks[started[p][i]].Name \notin {"daemon sets", "amazon-cloudwatch-agent"}
DefaultOrderKept(p) ==
  /\ Len(started[p]) <= Len(DefaultOrder)
  /\ InvokedNames(p) = SubSeq(DefaultOrder, 1, Len(started[p]))
  /\ \A i \in 1..Len(started[p]) : \A j \in 1..(i - 1) :
       j <= Len(outcome[p]) /\ outcome[p][j] = Nil

\* C5 as stated: with the default task list, tasks are invoked in the default
\* order, each only after every earlier one succeeded, and when the
\* deployments task fails (with any error) Reconcile returns that error and
\* the daemon-sets and self tasks are never invoked.
C5_Original ==
  \A p \in Procs :
    Len(paramsTasks) = 0 =>
      /\ DefaultOrderKept(p)
      /\ DeploymentsFailedIn(p, TRUE) => DeploymentsFailureReturned(p)

\* C5 amended: with the default task list, tasks are invoked in the default
\* order, each only after every earlier one succeeded, and when the
\* deployments task fails with an error other than the namespace-terminating
\* condition Reconcile returns that error and the daemon-sets and self tasks
\* are never invoked.
C5_DefaultOrder ==
  \A p \in Procs :
    Len(paramsTasks) = 0 =>
      /\ DefaultOrderKept(p)
      /\ DeploymentsFailedIn(p, FALSE) => DeploymentsFailureReturned(p)

\* C5 witness: with the default list, the deployments task failed after the
\* three tasks before it succeeded
C5_Witness ==
  \E p \in Procs :
    /\ Len(paramsTasks) = 0
    /\ Len(started[p]) = 4
    /\ DeploymentsFailedIn(p, FALSE)
    /\ ret[p] = ErrInternal

\* the error Reconcile returned to p came from a bail-on-error task
ReturnedBailFailure(p) ==
  \E k \in 1..Len(outcome[p]) : BailFailureAt(p, k) /\ ret[p] = outcome[p][k]

\* C6 as stated: whenever Reconcile returns a non-nil error, a task marked
\* BailOnError was invoked in that invocation and returned that error, and
\* the error is not the namespace-terminating condition.
C6_Original ==
  \A p \in Procs :
    (pc[p] = "returned" /\ ret[p] # Nil) => ReturnedBailFailure(p)

\* C6 amended: whenever Reconcile returns a non-nil error, either the fetch
\* failed with that error, which is not NotFound, and no task was invoked,
\* or a task marked BailOnError was invoked in that invocation and returned
\* that error, which is not the namespace-terminating condition.
C6_OnlyFetchOrBailErrors ==
  \A p \in Procs :
    (pc[p] = "returned" /\ ret[p] # Nil) =>
      \/ /\ fetchErr[p] = ret[p]
         /\ fetchErr[p].reason # "NotFound"
         /\ started[p] = <<>>
      \/ /\ fetchErr[p] = Nil
         /\ ReturnedBailFailure(p)

\* C6 witness: one Reconcile returned a fetch error and another the failure
\* of a bail-on-error task that ran after a failed task not marked so
C6_Witness ==
  \E p, q \in Procs :
    /\ pc[p] = "returned" /\ ret[p] # Nil /\ fetchErr[p] # Nil
    /\ pc[q] = "returned" /\ ret[q] # Nil /\ fetchErr[q] = Nil
    /\ Len(outcome[q]) = 2 /\ outcome[q][1] # Nil

(***************************************************************************)
(* Properties of Container.                                                *)
(***************************************************************************)
Calls == { calls[i] : i \in 1..Len(calls) }
HasPrefix(s, pre) == Len(s) >= Len(pre) /\ SubSeq(s, 1, Len(pre)) = pre
\* the argument "--key=value"
Rendered(k, v) == <<45, 45>> \o k \o <<61>> \o v
\* the flags the user declared in the spec a call was made with
UserFlags(c) == IF c.spec.Args.isNil THEN EmptyMap ELSE c.spec.Args.kv
\* the keys of those flags that are not the reserved one of the call
UserKeys(c) ==
  IF c.addConfig THEN DOMAIN UserFlags(c) \ {StrConfig} ELSE DOMAIN UserFlags(c)
\* where the argument of user key k stands in the argument list of call c
ArgPositions(c, k) ==
  { i \in 1..Len(c.container.Args) : c.container.Args[i] = Rendered(k, UserFlags(c)[k]) }
ArgBefore(c, k1, k2) ==
  \A i \in ArgPositions(c, k1) : \A j \in ArgPositions(c, k2) : i < j
AllUserFlagsRendered(c) == \A k \in UserKeys(c) : ArgPositions(c, k) # {}

\* C7 as stated: two calls of Container with identical configuration
\* defaults, spec and addConfig return identical containers, whatever else
\* differs between them.
C7_Original ==
  \A c, d \in Calls :
    (c.config = d.config /\ c.spec = d.spec /\ c.addConfig = d.addConfig)
      => c.container = d.container

\* C7 amended: two calls of Container with identical configuration defaults,
\* spec and addConfig, made while the proxy variables of the operator's
\* process environment are the same, return identical containers, the order
\* of the ports, arguments and environment included.
C7_DeterministicGivenProxyEnv ==
  \A c, d \in Calls :
    (c.config = d.config /\ c.spec = d.spec /\ c.addConfig = d.addConfig /\ c.env = d.env)
      => c.container = d.container

\* C7 witness: two calls with the same inputs whose containers have several
\* ports and several sorted arguments
C7_Witness ==
  /\ Len(calls) = 2
  /\ calls[1].config = calls[2].config /\ calls[1].spec = calls[2].spec
  /\ calls[1].addConfig = calls[2].addConfig /\ calls[1].env = calls[2].env
  /\ Len(calls[2].container.Ports) >= 3
  /\ Cardinality(UserKeys(calls[2])) >= 2

UserArgs(c) ==
  SubSeq(c.container.Args, IF c.addConfig THEN 2 ELSE 1, Len(c.container.Args))
\* k1 is a proper prefix of k2 and k2 goes on with a byte below '='
PrefixBelowEq(k1, k2) ==
  /\ Len(k1) < Len(k2)
  /\ SubSeq(k2, 1, Len(k1)) = k1
  /\ k2[Len(k1) + 1] < 61

C9_ConfigFlagFirstAndOnly ==
  \A c \in Calls :
    c.addConfig =>
      LET args == c.container.Args IN
      /\ Len(args) >= 1
      /\ args[1] = <<45, 45>> \o StrConfig \o <<61, 47>> \o <<99, 111, 110, 102>> \o <<47>>
                     \o c.config.CollectorConfigMapEntry
      /\ { i \in 1..Len(args) : HasPrefix(args[i], <<45, 45>> \o StrConfig \o <<61>>) } = {1}
      /\ \A k \in DOMAIN UserFlags(c) \ {StrConfig} : Cardinality(ArgPositions(c, k)) = 1
      /\ Len(args) = 1 + Cardinality(DOMAIN UserFlags(c) \ {StrConfig})

\* C9 witness: a call with addConfig whose spec declares "config" with the
\* very path the system flag carries, and one more flag
C9_Witness ==
  \E c \in Calls :
    /\ c.addConfig
    /\ c.config.CollectorConfigMapEntry = EntryC
    /\ StrConfig \in DOMAIN UserFlags(c)
    /\ UserFlags(c)[StrConfig] = ValConfC
    /\ Cardinality(DOMAIN UserFlags(c)) = 2

\* the default ports that pass validation, under their truncated names
SurvivingDefaults(c) ==
  { [Name |-> SubSeq(p.Name, 1, Min(Len(p.Name), 15)), ContainerPort |-> p.Port,
     Protocol |-> p.Protocol] :
      p \in { q \in Range(cloudwatchAgentPorts) :
                /\ IsValidPortName(SubSeq(q.Name, 1, Min(Len(q.Name), 15))) = {}
                /\ IsValidPortNum(q.Port) = {} } }
\* the entries of the port list of call c that are named name
PortsNamed(c, name) ==
  { i \in 1..Len(c.container.Ports) : c.container.Ports[i].Name = name }
\* the port list of call c has exactly one entry of that name, number, protocol
OnlyPort(c, name, num, proto) ==
  /\ Cardinality(PortsNamed(c, name)) = 1
  /\ \A i \in PortsNamed(c, name) :
       /\ c.container.Ports[i].ContainerPort = num
       /\ c.container.Ports[i].Protocol = proto
\* user ports named otherwise than every surviving default are added, and
\* surviving defaults no user port names are kept
NewAddedDefaultsKept(c) ==
  LET user == c.spec.Ports IN
  /\ \A i \in 1..Len(user) :
       (\A d \in SurvivingDefaults(c) : d.Name # user[i].Name)
         => Cardinality(PortsNamed(c, user[i].Name)) = 1
  /\ \A d \in SurvivingDefaults(c) :
       (\A i \in 1..Len(user) : user[i].Name # d.Name)
         => OnlyPort(c, d.Name, d.ContainerPort, d.Protocol)

\* C10 as stated: for a surviving default port named X and every user port
\* named X, the port list has exactly one entry named X, with that user
\* port's number and protocol; user ports of other names are added and the
\* other surviving defaults are kept unchanged.
C10_Original ==
  \A c \in Calls :
    /\ \A d \in SurvivingDefaults(c) : \A i \in 1..Len(c.spec.Ports) :
         c.spec.Ports[i].Name = d.Name
           => OnlyPort(c, d.Name, c.spec.Ports[i].Port, c.spec.Ports[i].Protocol)
    /\ NewAddedDefaultsKept(c)

\* C10 amended: for a surviving default port named X and the last user port
\* declared under the name X, the port list has exactly one entry named X,
\* with that user port's number and protocol; user ports of other names are
\* added and the other surviving defaults are kept unchanged.
C10_LastUserPortReplacesDefault ==
  \A c \in Calls :
    /\ \A d \in SurvivingDefaults(c) : \A i \in 1..Len(c.spec.Ports) :
         ( /\ c.spec.Ports[i].Name = d.Name
           /\ \A j \in (i + 1)..Len(c.spec.Ports) : c.spec.Ports[j].Name # d.Name )
           => OnlyPort(c, d.Name, c.spec.Ports[i].Port, c.spec.Ports[i].Protocol)
    /\ NewAddedDefaultsKept(c)

\* C10 witness: a call whose spec declares a port named as a surviving
\* default, with another number and protocol, and a port of a new name,
\* while another default survives unnamed
C10_Witness ==
  \E c \in Calls : \E d, e \in SurvivingDefaults(c) :
    /\ Len(c.spec.Ports) = 2
    /\ c.spec.Ports[1].Name = d.Name
    /\ c.spec.Ports[1].Port # d.ContainerPort
    /\ c.spec.Ports[1].Protocol # d.Protocol
    /\ c.spec.Ports[2].Name = PortC
    /\ e.Name # d.Name
    /\ Len(c.container.Ports) = 3

\* the names a call's port list must hold: those of the surviving defaults
\* and those the user declared
ExpectedPortNames(c) ==
  { d.Name : d \in SurvivingDefaults(c) } \cup
  { c.spec.Ports[i].Name : i \in 1..Len(c.spec.Ports) }

\* C11: the container's port list is sorted strictly ascending by name, so no
\* two entries share a name, and it lists exactly the names of the surviving
\* defaults and of the declared ports: its order is fixed by those names, not
\* by the order the map was visited in or the ports were declared in.
C11_PortsStrictlyAscending ==
  \A c \in Calls :
    LET ports == c.container.Ports IN
    /\ \A i, j \in 1..Len(ports) : i < j => StrLess(ports[i].Name, ports[j].Name)
    /\ { ports[i].Name : i \in 1..Len(ports) } = ExpectedPortNames(c)

\* C11 witness: a call whose spec repeats a port name, or declares its ports
\* in descending order of name, and whose port list has three entries
C11_Witness ==
  \E c \in Calls :
    /\ Len(c.spec.Ports) = 2
    /\ ~StrLess(c.spec.Ports[1].Name, c.spec.Ports[2].Name)
    /\ Len(c.container.Ports) >= 3

\* a port of a port list has a validated name of at most 15 bytes and a
\* validated number
ValidResolvedPort(p) ==
  /\ Len(p.Name) <= 15
  /\ IsValidPortName(p.Name) = {}
  /\ IsValidPortNum(p.ContainerPort) = {}
\* the names the user declared ports under in the spec of call c
UserPortNames(c) == { c.spec.Ports[i].Name : i \in 1..Len(c.spec.Ports) }

\* C12 as stated: every port of the container's port list has a name of at
\* most 15 characters that passes port-name validation and a number that
\* passes port-number validation, whether it came from the default table or
\* from the user's declarations.
C12_Original ==
  \A c \in Calls :
    \A i \in 1..Len(c.container.Ports) : ValidResolvedPort(c.container.Ports[i])

\* C12 amended: every port of the container's port list that came from the
\* default table has a name of at most 15 characters that passes port-name
\* validation and a number that passes port-number validation; a port the
\* user declared is in the list under the name and number declared,
\* neither truncated nor validated.
C12_DefaultPortsValidated ==
  \A c \in Calls :
    /\ \A i \in 1..Len(c.container.Ports) :
         c.container.Ports[i].Name \notin UserPortNames(c)
           => ValidResolvedPort(c.container.Ports[i])
    /\ \A n \in UserPortNames(c) :
         \E i \in 1..Len(c.container.Ports) : \E j \in 1..Len(c.spec.Ports) :
           /\ c.container.Ports[i].Name = n
           /\ c.spec.Ports[j].Name = n
           /\ c.container.Ports[i].ContainerPort = c.spec.Ports[j].Port

\* C12 witness: a call on a table with a default port that fails validation
\* and one that passes, and a spec that declares a port of 16 bytes
C12_Witness ==
  \E c \in Calls :
    /\ \E i \in 1..Len(cloudwatchAgentPorts) :
         IsValidPortNum(cloudwatchAgentPorts[i].Port) # {}
    /\ \E i \in 1..Len(c.container.Ports) :
         c.container.Ports[i].Name \notin UserPortNames(c)
    /\ \E i \in 1..Len(c.container.Ports) : Len(c.container.Ports[i].Name) = 16

\* the variables the user declared in the spec a call was made with
UserEnv(c) == IF c.spec.Env.isNil THEN <<>> ELSE c.spec.Env.list
\* a proxy variable is passed on under its upper-case and lower-case names
ProxyPair(c, upper, lower) ==
  IF c.env[upper] = "<unset>" THEN <<>>
  ELSE << [Name |-> upper, Value |-> c.env[upper], FieldPath |-> ""],
          [Name |-> lower, Value |-> c.env[upper], FieldPath |-> ""] >>
\* the proxy variables of the environment a call was made in
ProxyVarsOf(c) ==
  ProxyPair(c, "HTTP_PROXY", "http_proxy") \o ProxyPair(c, "HTTPS_PROXY", "https_proxy")
    \o ProxyPair(c, "NO_PROXY", "no_proxy")

\* C13: the container's environment list is the user's variables in declared
\* order, then one POD_NAME variable taken from the field metadata.name, then
\* the proxy variables of the operator's environment; no other variable
\* taken from a field is in the list.
C13_EnvOrder ==
  \A c \in Calls :
    LET env == c.container.Env
        n == Len(UserEnv(c)) IN
    /\ Len(env) = n + 1 + Len(ProxyVarsOf(c))
    /\ SubSeq(env, 1, n) = UserEnv(c)
    /\ env[n + 1] = [Name |-> "POD_NAME", Value |-> "", FieldPath |-> "metadata.name"]
    /\ SubSeq(env, n + 2, Len(env)) = ProxyVarsOf(c)
    /\ { i \in 1..Len(env) : env[i].FieldPath # "" } = {n + 1}

\* C13 witness: a call with two user variables, declared in an order that is
\* not alphabetical, in an environment with proxy variables set
C13_Witness ==
  \E c \in Calls :
    /\ Len(UserEnv(c)) = 2
    /\ UserEnv(c)[1].Name = "B"
    /\ Len(ProxyVarsOf(c)) = 4
    /\ Len(c.container.Env) = 7

\* C14: Container leaves the caller's spec as it was: after every call the
\* spec of the caller's instance (flag map, environment list, port list,
\* volume mounts, config-bundle list) equals the spec the call was made with.
C14_SpecUnchanged ==
  \A c \in Calls : otelcol = c.spec

\* C16: within one RunTasks invocation the tasks called are a prefix of the
\* list, called in list order and each once; a task is called only after
\* every call before it has returned, so at most one call is in flight.
C16_SequentialPrefix ==
  \A p \in Procs :
    /\ Len(started[p]) <= Len(tasks)
    /\ \A i \in 1..Len(started[p]) : started[p][i] = i
    /\ Len(outcome[p]) <= Len(started[p])
    /\ Len(started[p]) - Len(outcome[p]) = (IF pc[p] = "inflight" THEN 1 ELSE 0)

\* C16 witness: a run in which the first task failed, the second was called
\* after it and is in flight
C16_Witness ==
  \E p \in Procs :
    /\ pc[p] = "inflight"
    /\ started[p] = <<1, 2>>
    /\ Len(outcome[p]) = 1
    /\ outcome[p][1] # Nil

\* the k-th call of the run of p returned the error of a cancelled context
CanceledAt(p, k) ==
  k \in 1..Len(outcome[p]) /\ outcome[p][k].reason = "context canceled"
\* the run of p stopped at its k-th call and returned what that call returned
HaltedWithErrorAt(p, k) ==
  /\ \A j \in (started[p][k] + 1)..Len(tasks) : j \notin Invoked(p)
  /\ pc[p] = "returned"
  /\ ret[p] = outcome[p][k]

\* C17 as stated: when a task returns the cancellation error of the context,
\* the pipeline returns that error and invokes no further task, whatever the
\* task's BailOnError flag.
C17_Original ==
  \A p \in Procs : \A k \in 1..Len(outcome[p]) :
    CanceledAt(p, k) => HaltedWithErrorAt(p, k)

\* C17 amended: when a task marked BailOnError returns the cancellation error
\* of the context, the pipeline returns that error and invokes no further
\* task; when a task not marked BailOnError returns it, the error is only
\* logged and the pipeline goes on to the next task of the list, or returns
\* nil when that task was the last.
C17_CanceledLikeAnyFailure ==
  \A p \in Procs : \A k \in 1..Len(outcome[p]) :
    CanceledAt(p, k) =>
      IF tasks[started[p][k]].BailOnError
        THEN HaltedWithErrorAt(p, k)
        ELSE \/ ProceedsAfter(p, k)
             \/ /\ started[p][k] = Len(tasks)
                /\ pc[p] = "loop" \/ (pc[p] = "returned" /\ ret[p] = Nil)

\* C17 witness: a run in which a task not marked BailOnError returned the
\* cancellation error and a bail-on-error task called after it returned it too
C17_Witness ==
  \E p \in Procs :
    /\ Len(outcome[p]) = 2
    /\ CanceledAt(p, 1) /\ ~tasks[1].BailOnError
    /\ CanceledAt(p, 2) /\ tasks[2].BailOnError
    /\ pc[p] = "returned"

\* the first 15 bytes of a default port's name
First15(name) == SubSeq(name, 1, Min(Len(name), 15))
\* a default port passes validation under its truncated name
DefaultPasses(p) ==
  IsValidPortName(First15(p.Name)) = {} /\ IsValidPortNum(p.Port) = {}

\* C18: getConfigContainerPorts returns a nil error and a map that holds,
\* under its name cut to at most 15 bytes, every default port whose cut name
\* and number pass validation, with its number and protocol, and no other
\* port: a port that fails validation is dropped without stopping the rest.
C18_DefaultPortsNeverFail ==
  \A c \in Calls :
    LET ports == c.configPorts.ports IN
    /\ c.configPorts.err.reason = "nil"
    /\ \A n \in DOMAIN ports : Len(n) <= 15 /\ ports[n].Name = n
    /\ \A i \in 1..Len(cloudwatchAgentPorts) :
         LET p == cloudwatchAgentPorts[i] IN
         IF DefaultPasses(p)
           THEN /\ First15(p.Name) \in DOMAIN ports
                /\ ports[First15(p.Name)].ContainerPort = p.Port
                /\ ports[First15(p.Name)].Protocol = p.Protocol
           ELSE First15(p.Name) \notin DOMAIN ports
    /\ DOMAIN ports \subseteq { First15(cloudwatchAgentPorts[i].Name) :
                                  i \in 1..Len(cloudwatchAgentPorts) }

\* C18 witness: a call on a table with a port of 16 bytes that is kept under
\* its 15-byte name, a port that fails validation, and a valid port after it
C18_Witness ==
  \E c \in Calls : \E i, j, k \in 1..Len(cloudwatchAgentPorts) :
    /\ Len(cloudwatchAgentPorts[i].Name) = 16 /\ DefaultPasses(cloudwatchAgentPorts[i])
    /\ ~DefaultPasses(cloudwatchAgentPorts[j])
    /\ j < k /\ DefaultPasses(cloudwatchAgentPorts[k])
    /\ Cardinality(DOMAIN c.configPorts.ports) = 2

\* C19: when addConfig is false the argument list is the user's flags and
\* nothing else, each rendered as --key=value once and the list sorted, a
\* flag keyed "config" among them like any other; and no volume mount for
\* the primary configuration is made.
C19_ConfigKeptWithoutAddConfig ==
  \A c \in Calls :
    ~c.addConfig =>
      LET args == c.container.Args IN
      /\ Len(args) = Cardinality(DOMAIN UserFlags(c))
      /\ \A k \in DOMAIN UserFlags(c) : Cardinality(ArgPositions(c, k)) = 1
      /\ \A i, j \in 1..Len(args) : i < j => StrLess(args[i], args[j])
      /\ \A i \in 1..Len(c.container.VolumeMounts) :
           /\ c.container.VolumeMounts[i].MountPath # <<"/etc/cwagentconfig">>
           /\ c.container.VolumeMounts[i].Name # "naming.ConfigMapVolume()"

\* C19 witness: a call without addConfig whose spec declares "config" and a
\* flag that sorts before it
C19_Witness ==
  \E c \in Calls :
    /\ ~c.addConfig
    /\ DOMAIN UserFlags(c) = {KeyB, StrConfig}
    /\ c.container.Args = << Rendered(KeyB, UserFlags(c)[KeyB]),
                             Rendered(StrConfig, UserFlags(c)[StrConfig]) >>

(***************************************************************************)
(* Properties of the lock on the task list.                                *)
(***************************************************************************)
\* the goroutines that are iterating the task list
Iterating == { p \in Procs : pc[p] \in {"loop", "inflight"} }

\* C15: every goroutine that iterates the task list holds the shared lock,
\* the exclusive lock is never held together with a shared one, the list is
\* replaced only under the exclusive lock, and so the list never changes
\* while a goroutine iterates it.
C15_ListStableWhileIterated ==
  [][ /\ muTasks.readers = Cardinality(Iterating)
      /\ ~(muTasks.writer /\ muTasks.readers > 0)
      /\ tasks' # tasks => (muTasks.writer /\ muTasks.readers = 0)
      /\ Iterating # {} => tasks' = tasks ]_vars

\* C15 witness: every goroutine iterates, at once, a list that has replaced
\* the one the reconciler was built with
C15_Witness ==
  /\ Iterating = Procs
  /\ muTasks.readers = NumProcs
  /\ tasks # NewReconcilerTasks(paramsTasks)

\* C20: the read locks held are exactly those of the RunTasks invocations in
\* flight, whichever way the others returned, and a Lock call that waits to
\* replace the list is granted in the end, provided every task returns.
C20_WriterEventuallyLocks ==
  /\ [](muTasks.readers = Cardinality(Iterating))
  /\ (muTasks.pending ~> muTasks.writer)

\* C20 witness: a Lock call waits while a goroutine iterates and another has
\* returned an error from RunTasks
C20_Witness ==
  /\ muTasks.pending
  /\ muTasks.readers >= 1
  /\ \E p \in Procs : pc[p] = "returned" /\ fetchErr[p] = Nil /\ ret[p] # Nil

=============================================================================
